---- MODULE Spec2Model ----
(***************************************************************************)
(* Model of one_commodity.py: producers with a linear supply curve and a   *)
(* price belief, consumers with a linear demand curve, and simulate_round, *)
(* which matches them.                                                     *)
(*                                                                         *)
(* Numbers.  The program computes with Python numbers (ints, and floats    *)
(* once a price has been multiplied by 1.02).  The model computes with     *)
(* exact rationals <<n, d>> (d > 0, lowest terms), so 1.02 is 51/50 and    *)
(* int(sqrt-expression) is the exact floor of the real root; the rounding  *)
(* error of binary floating point is not modelled.                         *)
(***************************************************************************)
EXTENDS Integers, Sequences, FiniteSets, TLC

(***************************************************************************)
(* Bounds of the model.                                                    *)
(***************************************************************************)
MaxProducers == 3
MaxConsumers == 3
MaxRounds == 1

(***************************************************************************)
(* Exact rational arithmetic standing for Python's numeric operators.      *)
(***************************************************************************)
\* the value of an expression bound once: Only({ F(x) : x \in {e} })
Only(S) == CHOOSE x \in S : TRUE

Abs(x) == IF x < 0 THEN -x ELSE x

RECURSIVE GCD(_, _)
GCD(a, b) == IF b = 0 THEN a ELSE GCD(b, a % b)

LCM(a, b) == (a \div GCD(a, b)) * b

\* the rational n/d (d > 0) in lowest terms
Rat(n, d) == LET g == GCD(Abs(n), d) IN <<n \div g, d \div g>>

FromInt(i) == <<i, 1>>
Zero == FromInt(0)

RAdd(x, y) == LET l == LCM(x[2], y[2])
              IN Rat(x[1] * (l \div x[2]) + y[1] * (l \div y[2]), l)
RNeg(x) == <<-x[1], x[2]>>
RSub(x, y) == RAdd(x, RNeg(y))
RMul(x, y) == LET g1 == GCD(Abs(x[1]), y[2])
                  g2 == GCD(Abs(y[1]), x[2])
              IN <<(x[1] \div g1) * (y[1] \div g2), (x[2] \div g2) * (y[2] \div g1)>>
\* x / y for y # 0
RDiv(x, y) == IF y[1] > 0 THEN RMul(x, <<y[2], y[1]>>)
              ELSE RMul(x, <<-y[2], -y[1]>>)
RLe(x, y) == RSub(x, y)[1] <= 0
RLt(x, y) == RSub(x, y)[1] < 0
RMax(x, y) == IF RLe(x, y) THEN y ELSE x
RMin(x, y) == IF RLe(x, y) THEN x ELSE y

\* PRICE_ADJUSTMENT = 1.02
PRICE_ADJUSTMENT == Rat(102, 100)

(***************************************************************************)
(* Producer                                                                *)
(***************************************************************************)
\* Producer.__init__
Producer(minimum_price, more_per_dollar, price_belief) ==
    [stock |-> Zero, price |-> price_belief,
     minimum_price |-> minimum_price, more_per_dollar |-> more_per_dollar]

\* Producer.produce: stock = max(0, (price - minimum_price) * more_per_dollar)
produce(p) ==
    [p EXCEPT !.stock =
        RMax(Zero, RMul(RSub(p.price, p.minimum_price), p.more_per_dollar))]

\* sell without "self.stock -= sold"
sell_keeps_stock(p, max_amount) ==
    [sold |-> RMin(max_amount, p.stock), producer |-> p]

\* sell with max(max_amount, self.stock) in place of min
sell_takes_max(p, max_amount) ==
    LET sold == RMax(max_amount, p.stock)
    IN [sold |-> sold, producer |-> [p EXCEPT !.stock = RSub(p.stock, sold)]]

\* Producer.sell: the amount sold and the producer after the sale
sell(p, max_amount) ==
    LET sold == RMin(max_amount, p.stock)
    IN [sold |-> sold, producer |-> [p EXCEPT !.stock = RSub(p.stock, sold)]]

\* adjust_price with the two branches exchanged
adjust_price_inverted(p) ==
    IF p.stock = Zero
    THEN [p EXCEPT !.price = RDiv(p.price, PRICE_ADJUSTMENT)]
    ELSE [p EXCEPT !.price = RMul(p.price, PRICE_ADJUSTMENT)]

\* Producer.adjust_price
adjust_price(p) ==
    IF p.stock = Zero
    THEN [p EXCEPT !.price = RMul(p.price, PRICE_ADJUSTMENT)]
    ELSE [p EXCEPT !.price = RDiv(p.price, PRICE_ADJUSTMENT)]

(***************************************************************************)
(* Consumer                                                                *)
(***************************************************************************)
\* Consumer.__init__
Consumer(amount_for_free, less_per_dollar) ==
    [amount_for_free |-> amount_for_free, less_per_dollar |-> less_per_dollar,
     purchased_this_round |-> Zero, paid_this_round |-> Zero]

\* reset without "self.paid_this_round = 0"
reset_keeps_paid(c) == [c EXCEPT !.purchased_this_round = Zero]

\* Consumer.reset
reset(c) == [c EXCEPT !.purchased_this_round = Zero, !.paid_this_round = Zero]

\* b without the factor 2 of 2 * self.purchased_this_round
coef_b_no_doubling(c, price) ==
    RSub(RAdd(c.purchased_this_round, RMul(c.less_per_dollar, price)),
         c.amount_for_free)

\* the coefficients of d**2 + b*d + c = 0 in desired_at_price
coef_b(c, price) ==
    RSub(RAdd(RMul(FromInt(2), c.purchased_this_round),
              RMul(c.less_per_dollar, price)),
         c.amount_for_free)

\* c with + in place of the - before amount_for_free
coef_c_sign_slip(c) ==
    RAdd(RAdd(RMul(c.purchased_this_round, c.purchased_this_round),
              RMul(c.less_per_dollar, c.paid_this_round)),
         RMul(c.amount_for_free, c.purchased_this_round))

\* c without the term less_per_dollar * self.paid_this_round
coef_c_without_paid(c) ==
    RSub(RMul(c.purchased_this_round, c.purchased_this_round),
         RMul(c.amount_for_free, c.purchased_this_round))

coef_c(c) ==
    RSub(RAdd(RMul(c.purchased_this_round, c.purchased_this_round),
              RMul(c.less_per_dollar, c.paid_this_round)),
         RMul(c.amount_for_free, c.purchased_this_round))

\* b**2 - 4*c, the argument of sqrt
discriminant(b, cc) == RSub(RMul(b, b), RMul(FromInt(4), cc))

\* d <= (-b + sqrt(b**2 - 4c)) / 2 for an integer d, given b**2 - 4c >= 0:
\* 2d + b <= sqrt(b**2 - 4c) iff 2d + b <= 0 or d**2 + b*d + c <= 0.
\* B, C and L are integers with b = B/L and c = C/L, L > 0.
AtMostLargerRoot(d, B, C, L) ==
    \/ 2 * d * L + B <= 0
    \/ d * d * L + d * B + C <= 0

\* the largest integer >= d that is at most the larger root, counting up
RECURSIVE CountUp(_, _, _, _)
CountUp(d, B, C, L) ==
    IF AtMostLargerRoot(d + 1, B, C, L) THEN CountUp(d + 1, B, C, L) ELSE d

\* int(max((-b + sqrt(b**2 - 4c)) / 2, 0)), as line 234 takes it from the
\* value desired_at_price returns
IntPart(b, cc) ==
    Only({ CountUp(0, b[1] * (L \div b[2]), cc[1] * (L \div cc[2]), L) :
             L \in {LCM(b[2], cc[2])} })

\* Consumer.desired_at_price.  raises = "ValueError" when sqrt gets a negative
\* argument, "AssertionError" when the smaller root is positive
\* (-b - sqrt(b**2 - 4c) <= 0 iff b >= 0 or c <= 0); otherwise raises = ""
\* and floor is the integer part of the value returned, as taken by the
\* int() of simulate_round.
desired_at_price(c, price) ==
    Only({ IF RLt(discriminant(b, cc), Zero)
           THEN [raises |-> "ValueError", floor |-> 0]
           ELSE IF ~(RLe(Zero, b) \/ RLe(cc, Zero))
           THEN [raises |-> "AssertionError", floor |-> 0]
           ELSE [raises |-> "", floor |-> IntPart(b, cc)] :
             b \in {coef_b(c, price)}, cc \in {coef_c(c)} })

\* the largest integer whose square is at most n, counting up from k
RECURSIVE ISqrtFrom(_, _)
ISqrtFrom(n, k) == IF (k + 1) * (k + 1) > n THEN k ELSE ISqrtFrom(n, k + 1)

ISqrt(n) == ISqrtFrom(n, 0)

IsSquare(n) == ISqrt(n) * ISqrt(n) = n

\* The real numbers desired_at_price computes with are a + b * sqrt(rad),
\* a, b and rad rational; rad is Zero or not the square of a rational.
Surd(a, b, rad) == [a |-> a, b |-> b, rad |-> rad]

\* a rational number as such a real
Rational(x) == Surd(x, Zero, Zero)

\* sqrt(x) for a rational x >= 0 in lowest terms: rational exactly when the
\* numerator and the denominator are squares
sqrt(x) ==
    IF IsSquare(x[1]) /\ IsSquare(x[2])
    THEN Rational(Rat(ISqrt(x[1]), ISqrt(x[2])))
    ELSE Surd(Zero, FromInt(1), x)

\* 0 <= a + b * sqrt(rad)
NonNegative(x) ==
    \/ RLe(Zero, x.a) /\ RLe(Zero, x.b)
    \/ /\ RLe(Zero, x.a) /\ RLt(x.b, Zero)
       /\ RLe(RMul(RMul(x.b, x.b), x.rad), RMul(x.a, x.a))
    \/ /\ RLt(x.a, Zero) /\ RLe(Zero, x.b)
       /\ RLe(RMul(x.a, x.a), RMul(RMul(x.b, x.b), x.rad))

\* max(desired, 0)
max_with_zero(x) == IF NonNegative(x) THEN x ELSE Rational(Zero)

\* the value returned with the smaller root (-b - sqrt_part) / 2 as desired
desired_value_smaller_root(c, price) ==
    Only({ max_with_zero(Surd(RDiv(RSub(RNeg(b), sqrt_part.a), FromInt(2)),
                              RDiv(RNeg(sqrt_part.b), FromInt(2)),
                              sqrt_part.rad)) :
             b \in {coef_b(c, price)},
             sqrt_part \in {sqrt(discriminant(coef_b(c, price), coef_c(c)))} })

\* Consumer.desired_at_price, lines 176-184: the value returned by a call
\* that raises nothing, max((-b + sqrt_part) / 2, 0), as an exact real
desired_value(c, price) ==
    Only({ max_with_zero(Surd(RDiv(RAdd(RNeg(b), sqrt_part.a), FromInt(2)),
                              RDiv(sqrt_part.b, FromInt(2)),
                              sqrt_part.rad)) :
             b \in {coef_b(c, price)},
             sqrt_part \in {sqrt(discriminant(coef_b(c, price), coef_c(c)))} })

\* purchase with "self.paid_this_round += price"
purchase_adds_price(c, amount, price) ==
    [c EXCEPT !.purchased_this_round = RAdd(@, amount),
              !.paid_this_round = RAdd(@, price)]

\* Consumer.purchase
purchase(c, amount, price) ==
    [c EXCEPT !.purchased_this_round = RAdd(@, amount),
              !.paid_this_round = RAdd(@, RMul(price, amount))]

(***************************************************************************)
(* The populations handed to simulate_round by its caller.                 *)
(***************************************************************************)
\* (minimum_price, more_per_dollar, price_belief) of the producers tried
ProducerKinds ==
    { Producer(FromInt(1), FromInt(1), FromInt(6)),
      Producer(FromInt(1), FromInt(1), FromInt(3)),
      Producer(FromInt(2), FromInt(1), FromInt(2)) }

\* (amount_for_free, less_per_dollar) of the consumers tried
ConsumerKinds ==
    { Consumer(FromInt(20), FromInt(1)),
      Consumer(FromInt(10), FromInt(1)),
      Consumer(FromInt(4), FromInt(1)) }

SeqsUpTo(S, n) == UNION { [1..k -> S] : k \in 0..n }

\* simulate_round sorts its copy of the producers by price before anything
\* reads their order (line 221), and producers of one price are alike here, so
\* one order per multiset of producers is tried: the one farthest from sorted
ProducerLists ==
    { s \in SeqsUpTo(ProducerKinds, MaxProducers) :
        \A i, j \in DOMAIN s : i < j => RLe(s[j].price, s[i].price) }

\* simulate_round shuffles its copy of the consumers before anything reads
\* their order (line 225), so one order per multiset of consumers is tried
ConsumerLists ==
    { s \in SeqsUpTo(ConsumerKinds, MaxConsumers) :
        \A i, j \in DOMAIN s :
            i < j => RLe(s[j].amount_for_free, s[i].amount_for_free) }

Range(q) == { q[i] : i \in DOMAIN q }

(***************************************************************************)
(* Helpers of simulate_round                                               *)
(***************************************************************************)
\* list.sort(key=lambda p: p.price) is stable: index i goes after every
\* index already placed whose price is <= its own
InsertByPrice(q, i, ps) ==
    LET n == Cardinality({ j \in DOMAIN q : RLe(ps[q[j]].price, ps[i].price) })
    IN SubSeq(q, 1, n) \o <<i>> \o SubSeq(q, n + 1, Len(q))

RECURSIVE SortedPrefix(_, _)
SortedPrefix(ps, k) ==
    IF k = 0 THEN <<>> ELSE InsertByPrice(SortedPrefix(ps, k - 1), k, ps)

\* the sort with reverse=True
sort_by_price_descending(ps) ==
    LET q == SortedPrefix(ps, Len(ps))
    IN [i \in DOMAIN q |-> q[Len(q) + 1 - i]]

\* producer_queue = list(producers); producer_queue.sort(key=lambda p: p.price)
\* as the sequence of the producers' indices
sort_by_price(ps) == SortedPrefix(ps, Len(ps))

\* the orders shuffle(q) can leave q in
shuffle(q) ==
    { r \in [DOMAIN q -> Range(q)] : \A i \in DOMAIN q : \E j \in DOMAIN r : r[j] = q[i] }

Indices(s) == [i \in DOMAIN s |-> i]

\* the condition of line 245 under which the next producer is popped
out_of_stock(p) == p.stock = Zero

\* the record of a method call: its name, its argument(s), the object
\* before the call, the exception raised ("" if none), the value returned,
\* and the locals total_desired and average_price of test_second_purchase
NoCall ==
    [name |-> "", args |-> <<>>, before |-> <<>>, raises |-> "",
     returned |-> <<>>, total_desired |-> <<>>, average_price |-> <<>>,
     expected |-> <<>>]

(***************************************************************************)
(* State                                                                   *)
(***************************************************************************)
VARIABLES
    producers,       \* the list of Producer objects
    consumers,       \* the list of Consumer objects
    producer_queue,  \* indices into producers, ascending by price
    consumer_queue,  \* indices into consumers
    producer,        \* index of the current producer, 0 before the first pop
    consumer,        \* index of the current consumer, 0 before the first pop
    desired,         \* local of the last loop iteration
    purchased,       \* local of the last loop iteration
    total_sold,
    total_paid,
    pc,              \* "start", "match" (at the loop test), "returned", "raised"
    raised,          \* the exception that left simulate_round, "" if none
    result,          \* the tuple returned, <<>> before the return
    round,           \* calls of simulate_round made by the driver loop
    produced,        \* the stock produce() set for each producer this round
    transacted,      \* <<producer, consumer>> pairs that ran lines 234-243
    call,            \* the last method call a test made on its object
    n_calls          \* the number of method calls a test has made

vars == <<producers, consumers, producer_queue, consumer_queue, producer,
          consumer, desired, purchased, total_sold, total_paid, pc, raised,
          result, round, produced, transacted, call, n_calls>>

Init ==
    /\ producers \in ProducerLists
    /\ consumers \in ConsumerLists
    /\ producer_queue = <<>>
    /\ consumer_queue = <<>>
    /\ producer = 0
    /\ consumer = 0
    /\ desired = 0
    /\ purchased = Zero
    /\ total_sold = Zero
    /\ total_paid = Zero
    /\ pc = "start"
    /\ raised = ""
    /\ result = <<>>
    /\ round = 0
    /\ produced = <<>>
    /\ transacted = {}
    /\ call = NoCall
    /\ n_calls = 0

(***************************************************************************)
(* simulate_round, lines 211-231: production, reset, the two queues and    *)
(* the first pops.  pop(0) of an empty list raises IndexError.             *)
(***************************************************************************)
StartRound ==
    /\ \/ pc = "start"
       \/ pc = "returned" /\ round < MaxRounds
    /\ round' = round + 1
    /\ UNCHANGED <<call, n_calls>>
    /\ \E ps \in {[i \in DOMAIN producers |-> produce(producers[i])]} :
       \E pq \in {sort_by_price(ps)} :
          /\ producers' = ps
          /\ produced' = [i \in DOMAIN ps |-> ps[i].stock]
          /\ consumers' = [i \in DOMAIN consumers |-> reset(consumers[i])]
          /\ total_sold' = Zero
          /\ total_paid' = Zero
          /\ desired' = 0
          /\ purchased' = Zero
          /\ result' = <<>>
          /\ transacted' = {}
          /\ \E cq \in shuffle(Indices(consumers)) :
                IF cq = <<>>
                THEN /\ consumer' = 0
                     /\ consumer_queue' = cq
                     /\ producer' = 0
                     /\ producer_queue' = pq
                     /\ pc' = "raised"
                     /\ raised' = "IndexError"
                ELSE /\ consumer' = Head(cq)
                     /\ consumer_queue' = Tail(cq)
                     /\ IF pq = <<>>
                        THEN /\ producer' = 0
                             /\ producer_queue' = pq
                             /\ pc' = "raised"
                             /\ raised' = "IndexError"
                        ELSE /\ producer' = Head(pq)
                             /\ producer_queue' = Tail(pq)
                             /\ pc' = "match"
                             /\ raised' = ""

(***************************************************************************)
(* simulate_round, lines 232-254: one iteration of the matching loop.      *)
(***************************************************************************)
Transaction ==
    /\ pc = "match"
    /\ producer_queue # <<>>
    /\ consumer_queue # <<>>
    /\ \E d \in {desired_at_price(consumers[consumer], producers[producer].price)} :
          IF d.raises # ""
          THEN /\ pc' = "raised"
               /\ raised' = d.raises
               /\ UNCHANGED <<producers, consumers, producer_queue,
                              consumer_queue, producer, consumer, desired,
                              purchased, total_sold, total_paid, result,
                              round, produced, transacted, call, n_calls>>
          ELSE \E s \in {sell(producers[producer], FromInt(d.floor))} :
               LET price == producers[producer].price
               IN /\ desired' = d.floor
                  /\ purchased' = s.sold
                  /\ producers' = [producers EXCEPT ![producer] = s.producer]
                  /\ consumers' = [consumers EXCEPT ![consumer] =
                                      purchase(@, s.sold, price)]
                  /\ total_sold' = RAdd(total_sold, s.sold)
                  /\ total_paid' = RAdd(total_paid, RMul(s.sold, price))
                  /\ transacted' = transacted \cup {<<producer, consumer>>}
                  /\ IF out_of_stock(s.producer)
                     THEN /\ producer' = Head(producer_queue)
                          /\ producer_queue' = Tail(producer_queue)
                     ELSE UNCHANGED <<producer, producer_queue>>
                  /\ IF FromInt(d.floor) = s.sold
                     THEN /\ consumer' = Head(consumer_queue)
                          /\ consumer_queue' = Tail(consumer_queue)
                     ELSE /\ consumer' = consumer
                          /\ consumer_queue' \in shuffle(consumer_queue)
                  /\ UNCHANGED <<pc, raised, result, round, produced,
                                 call, n_calls>>

(***************************************************************************)
(* simulate_round, lines 256-260: the loop test failed; every producer     *)
(* adjusts its price, then the averages are returned.  Dividing by a       *)
(* total_sold of 0 raises ZeroDivisionError.                               *)
(***************************************************************************)
EndRound ==
    /\ pc = "match"
    /\ producer_queue = <<>> \/ consumer_queue = <<>>
    /\ producers' = [i \in DOMAIN producers |-> adjust_price(producers[i])]
    /\ IF total_sold = Zero
       THEN /\ pc' = "raised"
            /\ raised' = "ZeroDivisionError"
            /\ result' = <<>>
       ELSE /\ pc' = "returned"
            /\ raised' = ""
            /\ result' = <<total_sold, RDiv(total_paid, total_sold)>>
    /\ UNCHANGED <<consumers, producer_queue, consumer_queue, producer,
                   consumer, desired, purchased, total_sold, total_paid,
                   round, produced, transacted, call, n_calls>>

Next == StartRound \/ Transaction \/ EndRound

Spec == Init /\ [][Next]_vars

TypeOK ==
    /\ pc \in {"start", "match", "returned", "raised"}
    /\ raised \in {"", "IndexError", "ValueError", "AssertionError", "ZeroDivisionError"}
    /\ producer \in 0..Len(producers)
    /\ consumer \in 0..Len(consumers)
    /\ Range(producer_queue) \subseteq DOMAIN producers
    /\ Range(consumer_queue) \subseteq DOMAIN consumers

(***************************************************************************)
(* The methods called one at a time on one object, as tests.py calls them  *)
(* on a Consumer.  The object under test is producers[1] or consumers[1].  *)
(***************************************************************************)
\* the longest sequence of calls made on one object
MaxCalls == 4

\* the producers tested: ProducerKinds and one priced within 2 % of its cost
TestProducers ==
    ProducerKinds \cup { Producer(Rat(99, 100), FromInt(1), FromInt(1)) }

\* the consumers tested
TestConsumers == ConsumerKinds \cup { Consumer(FromInt(10), Rat(1, 2)) }

\* the prices passed to desired_at_price and purchase
TestPrices ==
    { Zero, Rat(5, 2), FromInt(3), FromInt(9), FromInt(25) }

\* the amounts passed to sell and purchase
TestAmounts == { Rat(1, 2), FromInt(2), FromInt(7) }

round_state ==
    <<producer_queue, consumer_queue, producer, consumer, desired, purchased,
      total_sold, total_paid, pc, raised, result, round, produced, transacted>>

MethodInit ==
    /\ \/ producers \in { <<p>> : p \in TestProducers } /\ consumers = <<>>
       \/ producers = <<>> /\ consumers \in { <<c>> : c \in TestConsumers }
    /\ producer_queue = <<>>
    /\ consumer_queue = <<>>
    /\ producer = 0
    /\ consumer = 0
    /\ desired = 0
    /\ purchased = Zero
    /\ total_sold = Zero
    /\ total_paid = Zero
    /\ pc = "start"
    /\ raised = ""
    /\ result = <<>>
    /\ round = 0
    /\ produced = <<>>
    /\ transacted = {}
    /\ call = NoCall
    /\ n_calls = 0

\* producers[1].produce()
CallProduce ==
    /\ producers # <<>>
    /\ n_calls < MaxCalls
    /\ n_calls' = n_calls + 1
    /\ producers' = <<produce(producers[1])>>
    /\ call' = [NoCall EXCEPT !.name = "produce", !.before = producers[1]]
    /\ UNCHANGED <<consumers, round_state>>

\* producers[1].sell(max_amount)
CallSell ==
    /\ producers # <<>>
    /\ n_calls < MaxCalls
    /\ n_calls' = n_calls + 1
    /\ \E max_amount \in TestAmounts :
       \E s \in {sell(producers[1], max_amount)} :
          /\ producers' = <<s.producer>>
          /\ call' = [NoCall EXCEPT !.name = "sell", !.args = <<max_amount>>,
                                    !.before = producers[1],
                                    !.returned = s.sold]
    /\ UNCHANGED <<consumers, round_state>>

\* producers[1].adjust_price()
CallAdjustPrice ==
    /\ producers # <<>>
    /\ n_calls < MaxCalls
    /\ n_calls' = n_calls + 1
    /\ producers' = <<adjust_price(producers[1])>>
    /\ call' = [NoCall EXCEPT !.name = "adjust_price",
                              !.before = producers[1]]
    /\ UNCHANGED <<consumers, round_state>>

\* consumers[1].purchase(amount, price) with an amount a round can buy at
\* that price: at most int(desired_at_price(price)), lines 234-236
CallPurchase ==
    /\ consumers # <<>>
    /\ n_calls < MaxCalls
    /\ n_calls' = n_calls + 1
    /\ \E amount \in TestAmounts, price \in TestPrices :
       \E d \in {desired_at_price(consumers[1], price)} :
          /\ d.raises = ""
          /\ RLe(amount, FromInt(d.floor))
          /\ consumers' = <<purchase(consumers[1], amount, price)>>
          /\ call' = [NoCall EXCEPT !.name = "purchase",
                                    !.args = <<amount, price>>,
                                    !.before = consumers[1]]
    /\ UNCHANGED <<producers, round_state>>

\* the prices a test passes next: the fixed ones and, right after a reset,
\* its local average_price
NextPrices ==
    TestPrices \cup
        (IF call.name = "reset" /\ call.average_price # <<>>
         THEN {call.average_price} ELSE {})

\* tests.py lines 43-47 after a call returned the rational `returned` at
\* `price`: total_desired = purchased + desired and average_price =
\* (paid + price * desired) / total_desired
second_purchase_locals(c, price, returned) ==
    Only({ [total_desired |-> total,
            average_price |->
               IF total = Zero THEN <<>>
               ELSE RDiv(RAdd(c.paid_this_round, RMul(price, returned)),
                         total)] :
             total \in {RAdd(c.purchased_this_round, returned)} })

\* consumers[1].desired_at_price(price)
CallDesired ==
    /\ consumers # <<>>
    /\ n_calls < MaxCalls
    /\ n_calls' = n_calls + 1
    /\ \E price \in NextPrices :
       \E d \in {desired_at_price(consumers[1], price)} :
          IF d.raises # ""
          THEN call' = [NoCall EXCEPT !.name = "desired_at_price",
                                      !.args = <<price>>,
                                      !.before = consumers[1],
                                      !.raises = d.raises]
          ELSE \E v \in {desired_value(consumers[1], price)} :
               \E l \in {IF v.b = Zero
                         THEN second_purchase_locals(consumers[1], price, v.a)
                         ELSE [total_desired |-> <<>>,
                               average_price |-> <<>>]} :
                  call' = [NoCall EXCEPT
                             !.name = "desired_at_price",
                             !.args = <<price>>,
                             !.before = consumers[1],
                             !.returned = v,
                             !.total_desired = l.total_desired,
                             !.average_price = l.average_price,
                             !.expected =
                                IF call.name = "reset"
                                   /\ call.average_price = price
                                THEN call.total_desired ELSE <<>>]
    /\ UNCHANGED <<producers, consumers, round_state>>

\* consumers[1].reset(); the test keeps its locals
CallReset ==
    /\ consumers # <<>>
    /\ n_calls < MaxCalls
    /\ n_calls' = n_calls + 1
    /\ consumers' = <<reset(consumers[1])>>
    /\ call' = [NoCall EXCEPT
                  !.name = "reset",
                  !.before = consumers[1],
                  !.total_desired =
                     IF call.name = "desired_at_price"
                     THEN call.total_desired ELSE <<>>,
                  !.average_price =
                     IF call.name = "desired_at_price"
                     THEN call.average_price ELSE <<>>]
    /\ UNCHANGED <<producers, round_state>>

MethodNext ==
    \/ CallProduce
    \/ CallSell
    \/ CallAdjustPrice
    \/ CallPurchase
    \/ CallDesired
    \/ CallReset

MethodSpec == MethodInit /\ [][MethodNext]_vars

(***************************************************************************)
(* Vocabulary of the properties                                            *)
(***************************************************************************)
RECURSIVE SumTo(_, _)
SumTo(q, k) == IF k = 0 THEN Zero ELSE RAdd(SumTo(q, k - 1), q[k])
\* the sum of a sequence of numbers
Sum(q) == SumTo(q, Len(q))

\* the loop test of line 232 has failed: the matching phase is over
MatchingOver ==
    pc = "match" /\ (producer_queue = <<>> \/ consumer_queue = <<>>)

\* simulate_round has been left, by return or by an exception
RoundOver == pc \in {"returned", "raised"}

\* the round got past its first two pops
Matched == RoundOver /\ raised \in {"", "ZeroDivisionError"}

\* the last loop iteration left the consumer wanting more
PartialFill == FromInt(desired) # purchased

\* the iteration about to run will leave the consumer wanting more: its
\* floored demand exceeds the current producer's stock
WillPartialFill ==
    \E d \in {desired_at_price(consumers[consumer], producers[producer].price)} :
        d.raises = "" /\ RLt(producers[producer].stock, FromInt(d.floor))

\* the demand curve at the average price paid so far (purchases > 0)
demand_at_average_paid(c) ==
    RSub(c.amount_for_free,
         RMul(c.less_per_dollar,
              RDiv(c.paid_this_round, c.purchased_this_round)))

\* one producer (1, 1, 6) that produced 5 and one consumer (20, 1)
ConcreteScenario ==
    /\ round = 1
    /\ Len(producers) = 1
    /\ producers[1].minimum_price = FromInt(1)
    /\ producers[1].more_per_dollar = FromInt(1)
    /\ produced = <<FromInt(5)>>
    /\ Len(consumers) = 1
    /\ consumers[1].amount_for_free = FromInt(20)
    /\ consumers[1].less_per_dollar = FromInt(1)

(***************************************************************************)
(* C1: with one producer (1, 1, 6) and one consumer (20, 1), one call of   *)
(* simulate_round returns (5, 6), the consumer has purchased 5, and the    *)
(* producer has stock 0 and price 6 * 1.02.                                *)
(***************************************************************************)
C1_ScenarioTradesFive ==
    (ConcreteScenario /\ RoundOver) =>
        /\ pc = "returned"
        /\ result = <<FromInt(5), FromInt(6)>>
        /\ consumers[1].purchased_this_round = FromInt(5)
        /\ producers[1].stock = Zero
        /\ producers[1].price = RMul(FromInt(6), PRICE_ADJUSTMENT)

(***************************************************************************)
(* C2: when matching has ended, the last-popped producer and the           *)
(* last-popped consumer have transacted with each other, so the round has  *)
(* executed at least one transaction.                                      *)
(***************************************************************************)
C2_LastPairTransacts ==
    Matched => transacted # {} /\ <<producer, consumer>> \in transacted

(***************************************************************************)
(* C3: when the matching phase ends there is no producer with stock > 0    *)
(* together with a consumer whose floored desired_at_price at that         *)
(* producer's price is at least 1.                                         *)
(***************************************************************************)
C3_SupplyOrDemandExhausted ==
    MatchingOver =>
        ~ \E p \in DOMAIN producers, c \in DOMAIN consumers :
            /\ RLt(Zero, producers[p].stock)
            /\ desired_at_price(consumers[c], producers[p].price).raises = ""
            /\ desired_at_price(consumers[c], producers[p].price).floor >= 1

(***************************************************************************)
(* C4: the matching loop terminates: every iteration that returns to the   *)
(* loop test has removed at least one element from the producer queue or   *)
(* the consumer queue (also when the floored demand or the stock is 0), so *)
(* the number of queued elements, which is never negative, bounds the      *)
(* iterations; and with non-empty populations no pop is made on an empty   *)
(* queue.                                                                  *)
(***************************************************************************)
C4_MatchingTerminates ==
    /\ [][(pc = "match" /\ pc' = "match") =>
            Len(producer_queue') + Len(consumer_queue')
                < Len(producer_queue) + Len(consumer_queue)]_vars
    /\ []((producers # <<>> /\ consumers # <<>>) => raised # "IndexError")

\* a round that returned after three or more transactions, the last of them
\* made by a consumer whose floored demand was 0
C4_Witness ==
    /\ pc = "returned"
    /\ desired = 0
    /\ Cardinality(transacted) >= 3
    /\ \E p \in DOMAIN producers : produced[p] = Zero

(***************************************************************************)
(* C5: a transaction of a positive amount is made with the cheapest        *)
(* producer that has stock, and the engine moves on, to the next producer  *)
(* in ascending price order, only when the current one's stock is 0.       *)
(***************************************************************************)
C5_CheapestInStockSells ==
    [][(pc = "match" /\ pc' = "match") =>
        /\ total_sold' # total_sold =>
              \A q \in DOMAIN producers :
                  RLt(producers[q].price, producers[producer].price)
                      => producers[q].stock = Zero
        /\ producer' # producer =>
              /\ producers'[producer].stock = Zero
              /\ RLe(producers[producer].price, producers[producer'].price)
              /\ \A q \in Range(producer_queue') :
                    RLe(producers[producer'].price, producers[q].price)]_vars

\* two producers have sold part of their stock, the cheaper one all of it
C5_Witness ==
    /\ pc = "match"
    /\ \E p, q \in DOMAIN producers :
          /\ RLt(producers[p].price, producers[q].price)
          /\ RLt(Zero, produced[p])
          /\ producers[p].stock = Zero
          /\ RLt(producers[q].stock, produced[q])

(***************************************************************************)
(* C6: after a partial fill (purchased < desired) the unsatisfied consumer *)
(* is put back among the remaining consumers, from which the next current  *)
(* consumer is drawn in a new random order.                                *)
(***************************************************************************)
C6_PartialFillRedraws ==
    (/\ pc = "match"
     /\ Len(producer_queue) >= 2
     /\ consumer_queue # <<>>
     /\ WillPartialFill)
        => ENABLED (Transaction /\ PartialFill' /\ consumer' # consumer)

(***************************************************************************)
(* C7: total_sold never exceeds the sum of the stock produce() set this    *)
(* round, nor the sum of the consumers' amount_for_free.                   *)
(***************************************************************************)
C7_TotalSoldBounded ==
    pc # "start" =>
        /\ RLe(total_sold, Sum(produced))
        /\ RLe(total_sold,
               Sum([i \in DOMAIN consumers |-> consumers[i].amount_for_free]))

\* a round returned after selling something
C7_Witness ==
    /\ pc = "returned"
    /\ RLt(Zero, total_sold)
    /\ Cardinality(transacted) >= 2

(***************************************************************************)
(* C8: a round that ends with total_sold = 0 returns a result that reports *)
(* the absence of trade; it does not fail on the division.                 *)
(***************************************************************************)
C8_NoTradeIsReported ==
    (Matched /\ total_sold = Zero) =>
        pc = "returned" /\ raised # "ZeroDivisionError" /\ result # <<>>

(***************************************************************************)
(* C9: called with no producers or no consumers, simulate_round fails with *)
(* a precondition error before doing anything: it never pops from an empty *)
(* queue.                                                                  *)
(***************************************************************************)
C9_EmptyPopulationRejected ==
    (pc # "start" /\ (producers = <<>> \/ consumers = <<>>)) =>
        /\ pc = "raised"
        /\ raised # "IndexError"
        /\ consumer = 0

(***************************************************************************)
(* C10: every consumer has purchased_this_round >= 0 and                   *)
(* paid_this_round >= 0, and when purchased_this_round > 0 the demand      *)
(* curve at the average price paid equals purchased_this_round.            *)
(***************************************************************************)
C10_OnDemandCurve ==
    \A i \in DOMAIN consumers :
        /\ RLe(Zero, consumers[i].purchased_this_round)
        /\ RLe(Zero, consumers[i].paid_this_round)
        /\ RLt(Zero, consumers[i].purchased_this_round) =>
              demand_at_average_paid(consumers[i])
                  = consumers[i].purchased_this_round

(***************************************************************************)
(* C10 as amended: every consumer has purchased_this_round >= 0 and        *)
(* paid_this_round >= 0, and when purchased_this_round > 0 the demand      *)
(* curve at the average price paid is at least purchased_this_round.       *)
(***************************************************************************)
C10_WithinDemandCurve ==
    \A i \in DOMAIN consumers :
        /\ RLe(Zero, consumers[i].purchased_this_round)
        /\ RLe(Zero, consumers[i].paid_this_round)
        /\ RLt(Zero, consumers[i].purchased_this_round) =>
              RLe(consumers[i].purchased_this_round,
                  demand_at_average_paid(consumers[i]))

\* a consumer that bought at two prices and is strictly below its curve
C10_Witness ==
    \E i \in DOMAIN consumers :
        /\ Cardinality({ t \in transacted : t[2] = i
                           /\ RLt(producers[t[1]].stock, produced[t[1]]) }) >= 2
        /\ RLt(consumers[i].purchased_this_round,
               demand_at_average_paid(consumers[i]))

(***************************************************************************)
(* C11: in every reachable state every consumer satisfies                  *)
(* purchased_this_round^2 <= amount_for_free * purchased_this_round        *)
(*                           - less_per_dollar * paid_this_round.          *)
(***************************************************************************)
C11_PurchasesUnderCurve ==
    \A i \in DOMAIN consumers :
        RLe(RMul(consumers[i].purchased_this_round,
                 consumers[i].purchased_this_round),
            RSub(RMul(consumers[i].amount_for_free,
                      consumers[i].purchased_this_round),
                 RMul(consumers[i].less_per_dollar,
                      consumers[i].paid_this_round)))

\* a consumer that bought from two producers, the second at a higher price,
\* and whose demand at that price was not an integer before the floor
C11_Witness ==
    \E i \in DOMAIN consumers : \E t, u \in transacted :
        /\ t[2] = i /\ u[2] = i
        /\ RLt(producers[t[1]].stock, produced[t[1]])
        /\ RLt(producers[u[1]].stock, produced[u[1]])
        /\ pc = "match"
        /\ RLt(producers[t[1]].price, producers[u[1]].price)
        /\ RLt(RMul(consumers[i].purchased_this_round,
                    consumers[i].purchased_this_round),
               RSub(RMul(consumers[i].amount_for_free,
                         consumers[i].purchased_this_round),
                    RMul(consumers[i].less_per_dollar,
                         consumers[i].paid_this_round)))

(***************************************************************************)
(* C12: a call desired_at_price(price) on a consumer with                  *)
(* purchased_this_round = paid_this_round = 0 and price >= 0 raises        *)
(* nothing and returns max(amount_for_free - less_per_dollar * price, 0).  *)
(***************************************************************************)
C12_FirstCallIsBaseCurve ==
    (/\ call.name = "desired_at_price"
     /\ call.before.purchased_this_round = Zero
     /\ call.before.paid_this_round = Zero
     /\ RLe(Zero, call.args[1]))
    => /\ call.raises = ""
       /\ call.returned =
             Rational(RMax(RSub(call.before.amount_for_free,
                                RMul(call.before.less_per_dollar,
                                     call.args[1])),
                           Zero))

\* such a call at a positive price returned a positive amount that is not
\* an integer
C12_Witness ==
    /\ call.name = "desired_at_price"
    /\ call.before.purchased_this_round = Zero
    /\ call.before.paid_this_round = Zero
    /\ RLt(Zero, call.args[1])
    /\ call.raises = ""
    /\ RLt(Zero, call.returned.a)
    /\ call.returned.a[2] > 1

\* such a call at a price above amount_for_free / less_per_dollar returned 0
C12_WitnessNoDemand ==
    /\ call.name = "desired_at_price"
    /\ call.before.purchased_this_round = Zero
    /\ call.before.paid_this_round = Zero
    /\ RLt(call.before.amount_for_free,
           RMul(call.before.less_per_dollar, call.args[1]))
    /\ call.returned = Rational(Zero)

\* With d = a + b * sqrt(rad) the value a call returned for price on the
\* consumer c, and q = c.purchased_this_round + d, the two rational parts of
\*   q^2 - amount_for_free * q + less_per_dollar * (paid_this_round + d * price)
\* which is 0 exactly when both are 0, rad not being a square unless b = 0
curve_gap_rational(c, price, d) ==
    Only({ RAdd(RSub(RAdd(RMul(q, q), RMul(RMul(d.b, d.b), d.rad)),
                     RMul(c.amount_for_free, q)),
                RMul(c.less_per_dollar,
                     RAdd(c.paid_this_round, RMul(d.a, price)))) :
             q \in {RAdd(c.purchased_this_round, d.a)} })

curve_gap_surd(c, price, d) ==
    RMul(d.b,
         RAdd(RSub(RMul(FromInt(2), RAdd(c.purchased_this_round, d.a)),
                   c.amount_for_free),
              RMul(c.less_per_dollar, price)))

(***************************************************************************)
(* C13: after purchases of a round amounting to q1 and costing q1 * p1,    *)
(* a call desired_at_price(p2) raises nothing and returns a d with         *)
(* (q1 + d)^2 = amount_for_free * (q1 + d)                                 *)
(*              - less_per_dollar * (q1 * p1 + d * p2).                    *)
(***************************************************************************)
C13_SecondCallStaysOnCurve ==
    (/\ call.name = "desired_at_price"
     /\ RLt(Zero, call.before.purchased_this_round))
    => /\ call.raises = ""
       /\ curve_gap_rational(call.before, call.args[1], call.returned) = Zero
       /\ curve_gap_surd(call.before, call.args[1], call.returned) = Zero

\* a call after a purchase at a lower price returned a positive amount that
\* is not rational
C13_Witness ==
    /\ call.name = "desired_at_price"
    /\ RLt(Zero, call.before.purchased_this_round)
    /\ RLt(call.before.paid_this_round,
           RMul(call.before.purchased_this_round, call.args[1]))
    /\ call.raises = ""
    /\ call.returned.b # Zero
    /\ RLt(Zero, call.returned.a)

(***************************************************************************)
(* C14: reset() leaves both accumulators 0 and the consumer answering      *)
(* desired_at_price as a newly constructed one; and when the test calls    *)
(* desired_at_price(average_price) right after reset(), the call raises    *)
(* nothing and returns the total_desired of before the reset.              *)
(***************************************************************************)
C14_ResetRestoresBaseCurve ==
    /\ call.name = "reset" =>
          /\ consumers[1].purchased_this_round = Zero
          /\ consumers[1].paid_this_round = Zero
          /\ \A price \in TestPrices :
                /\ desired_at_price(consumers[1], price)
                      = desired_at_price(Consumer(call.before.amount_for_free,
                                                  call.before.less_per_dollar),
                                         price)
                /\ desired_value(consumers[1], price)
                      = desired_value(Consumer(call.before.amount_for_free,
                                               call.before.less_per_dollar),
                                      price)
    /\ (call.name = "desired_at_price" /\ call.expected # <<>>) =>
          /\ call.raises = ""
          /\ call.returned = Rational(call.expected)

\* the call after the reset was made at an average of two different prices
\* and returned the positive total desired before the reset
C14_Witness ==
    /\ call.name = "desired_at_price"
    /\ call.expected # <<>>
    /\ call.args[1] \notin TestPrices
    /\ RLt(Zero, call.expected)
    /\ call.returned = Rational(call.expected)

(***************************************************************************)
(* C15: sell(max_amount) with max_amount >= 0 returns stock and leaves 0   *)
(* when max_amount > stock, returns max_amount and leaves stock -          *)
(* max_amount otherwise; the amount returned is between 0 and the stock    *)
(* before the call; and every producer has stock >= 0 in every state.      *)
(***************************************************************************)
C15_SellWithinStock ==
    /\ call.name = "sell" =>
          /\ RLt(call.before.stock, call.args[1]) =>
                /\ call.returned = call.before.stock
                /\ producers[1].stock = Zero
          /\ RLe(call.args[1], call.before.stock) =>
                /\ call.returned = call.args[1]
                /\ producers[1].stock = RSub(call.before.stock, call.args[1])
          /\ RLe(Zero, call.returned)
          /\ RLe(call.returned, call.before.stock)
          /\ producers[1].stock = RSub(call.before.stock, call.returned)
    /\ \A i \in DOMAIN producers : RLe(Zero, producers[i].stock)

\* a sale of all of a positive stock to a caller asking for more
C15_Witness ==
    /\ call.name = "sell"
    /\ RLt(Zero, call.before.stock)
    /\ RLt(call.before.stock, call.args[1])
    /\ producers[1].stock = Zero

\* a sale of part of the stock
C15_WitnessPart ==
    /\ call.name = "sell"
    /\ RLt(call.args[1], call.before.stock)
    /\ RLt(Zero, producers[1].stock)

(***************************************************************************)
(* C16: the step that ends the matching changes the price of every         *)
(* producer, reached by the matching or not: a producer with stock 0 gets  *)
(* a strictly higher price, one with stock > 0 a strictly lower price      *)
(* that is not negative; no other step of a round changes a price, so      *)
(* each producer is adjusted exactly once per round.                       *)
(***************************************************************************)
C16_PricesAdjustedOncePerRound ==
    [][/\ DOMAIN producers' = DOMAIN producers
       /\ IF MatchingOver /\ pc' # "match"
          THEN \A i \in DOMAIN producers :
                  /\ RLt(Zero, producers[i].price)
                  /\ producers'[i].stock = producers[i].stock
                  /\ producers[i].stock = Zero =>
                        /\ RLt(producers[i].price, producers'[i].price)
                        /\ producers'[i].price
                              = RMul(producers[i].price, PRICE_ADJUSTMENT)
                  /\ RLt(Zero, producers[i].stock) =>
                        /\ RLt(producers'[i].price, producers[i].price)
                        /\ RLe(Zero, producers'[i].price)
                        /\ RMul(producers'[i].price, PRICE_ADJUSTMENT)
                              = producers[i].price
          ELSE \A i \in DOMAIN producers :
                  producers'[i].price = producers[i].price]_vars

\* a round is over in which one producer sold out and raised its price and
\* another, never reached by the matching, kept its stock and lowered its
\* price
C16_Witness ==
    /\ pc = "returned"
    /\ round = 1
    /\ \E i, j \in DOMAIN producers :
          /\ RLt(Zero, produced[i])
          /\ producers[i].stock = Zero
          /\ producers[i].price
                \in { RMul(k.price, PRICE_ADJUSTMENT) : k \in ProducerKinds }
          /\ RLt(Zero, produced[j])
          /\ producers[j].stock = produced[j]
          /\ \A t \in transacted : t[1] # j
          /\ producers[j].price
                \in { RDiv(k.price, PRICE_ADJUSTMENT) : k \in ProducerKinds }

(***************************************************************************)
(* C17: a producer whose price was at least minimum_price before           *)
(* adjust_price() still has price >= minimum_price after it.               *)
(***************************************************************************)
C17_PriceNotBelowCost ==
    (/\ call.name = "adjust_price"
     /\ RLe(call.before.minimum_price, call.before.price))
    => RLe(producers[1].minimum_price, producers[1].price)

\* the call desired_at_price(price) on c passes sqrt and the assertion:
\* b^2 - 4c >= 0, and the smaller root (-b - sqrt(b^2 - 4c)) / 2 is <= 0,
\* which is b >= 0 or c <= 0
call_is_safe(c, price) ==
    /\ RLe(Zero, discriminant(coef_b(c, price), coef_c(c)))
    /\ RLe(Zero, coef_b(c, price)) \/ RLe(coef_c(c), Zero)

(***************************************************************************)
(* C18: in every state of a round, a call of desired_at_price by any       *)
(* consumer at any producer's price has a discriminant >= 0 and a smaller  *)
(* root <= 0, and no round is left by ValueError or AssertionError.        *)
(***************************************************************************)
C18_DesiredAtPriceNeverFails ==
    /\ raised \notin {"ValueError", "AssertionError"}
    /\ pc = "match" =>
          \A i \in DOMAIN consumers, j \in DOMAIN producers :
             call_is_safe(consumers[i], producers[j].price)

\* the loop is about to call desired_at_price on a consumer that has
\* already purchased, at a higher price than it paid on average
C18_Witness ==
    /\ pc = "match"
    /\ producer_queue # <<>>
    /\ consumer_queue # <<>>
    /\ RLt(Zero, consumers[consumer].purchased_this_round)
    /\ RLt(consumers[consumer].paid_this_round,
           RMul(consumers[consumer].purchased_this_round,
                producers[producer].price))

(***************************************************************************)
(* C19: once a round has produced, total_sold is the sum of                *)
(* purchased_this_round over the consumers and the sum of (stock produced  *)
(* this round - stock) over the producers, and total_paid is the sum of    *)
(* paid_this_round over the consumers.                                     *)
(***************************************************************************)
C19_GoodsAndMoneyConserved ==
    pc # "start" =>
       /\ total_sold
             = Sum([i \in DOMAIN consumers |->
                       consumers[i].purchased_this_round])
       /\ total_sold
             = Sum([i \in DOMAIN producers |->
                       RSub(produced[i], producers[i].stock)])
       /\ total_paid
             = Sum([i \in DOMAIN consumers |-> consumers[i].paid_this_round])

\* two consumers have bought and two producers have sold, at two prices
C19_Witness ==
    /\ pc = "match"
    /\ \E i, j \in DOMAIN consumers :
          /\ i # j
          /\ RLt(Zero, consumers[i].purchased_this_round)
          /\ RLt(Zero, consumers[j].purchased_this_round)
    /\ \E i, j \in DOMAIN producers :
          /\ producers[i].price # producers[j].price
          /\ RLt(producers[i].stock, produced[i])
          /\ RLt(producers[j].stock, produced[j])

\* the producer at the end of the price-sorted queue of this round, once the
\* first producer has been popped
last_in_price_order ==
    IF producer_queue = <<>> THEN producer
    ELSE producer_queue[Len(producer_queue)]

====
